---- MODULE Spec2Model ----
(***************************************************************************)
(* WidgetRenderer (a React function component) and the responsive helpers  *)
(* of responsiveUtils.ts.                                                  *)
(*                                                                         *)
(* Conventions                                                             *)
(*  - An optional JavaScript value (undefined / null / a missing field) is *)
(*    None == <<>>; a present value v is Some(v) == <<v>>.                 *)
(*  - Fractional numbers are kept exact as integers in hundredths: a scale *)
(*    factor 0.75 is 75, a size of 19.2px is 1920.                         *)
(*  - The component's colours (useTheme) do not take part in any branch    *)
(*    decision and are not part of the modelled view.                      *)
(***************************************************************************)
EXTENDS Integers, Sequences, FiniteSets, TLC

VARIABLES
    widget,              \* props.widget: [component, layoutId, dataSourceConfig]
    chartData,           \* props.chartData?.chartData: None or Some(sequence of samples)
    hierarchyChartData,  \* props.hierarchyChartData?.chartData: None or Some(sequence)
    lastRefresh,         \* props.lastRefresh: None or Some(seconds since local midnight)
    onDelete,            \* TRUE iff an onDelete callback was supplied
    isAdmin,             \* props.isAdmin
    token,               \* useAuth().token: None or Some(string)
    containerWidth,      \* useState(0)
    scaleFactor,         \* const scaleFactor = getScaleFactor(), in hundredths
    view,                \* what the last render returned; None before a render
    mounted,             \* the component is mounted
    offsetWidth,         \* the root element's offsetWidth (DOM)
    observing,           \* the ResizeObserver observes the root element
    pending,             \* a ResizeObserver notification is queued
    stale,               \* the width changed under a rendered card and was not yet read
    clickLog,            \* one entry per click on the delete button: the props it saw
    events,              \* the confirm() dialogs and onDelete calls, in order
    width,               \* getResponsiveFontSize: argument width
    baseSize,            \* getResponsiveFontSize: argument baseSize (None: defaulted)
    fontSize             \* getResponsiveFontSize: last result, None before a call

propVars == <<widget, chartData, hierarchyChartData, lastRefresh, onDelete, isAdmin, token>>
domVars  == <<offsetWidth, observing, pending, stale>>
logVars  == <<clickLog, events>>
fontVars == <<width, baseSize, fontSize>>
vars == <<propVars, containerWidth, scaleFactor, view, mounted, domVars, logVars, fontVars>>

None == <<>>
Some(v) == <<v>>

Max(a, b) == IF a >= b THEN a ELSE b
Min(a, b) == IF a <= b THEN a ELSE b

(***************************************************************************)
(* Bounds of the model.                                                    *)
(***************************************************************************)
MaxWidth == 450      \* widths 0..MaxWidth reach every tier of both tables
MaxBase == 50        \* base font sizes 1..MaxBase
MaxSamples == 2      \* samples held by the two chart sequences together
MaxClicks == 2       \* clicks on the delete button
MaxCols == 4         \* the container is resized in steps of ColWidth pixels
ColWidth == 100

(***************************************************************************)
(* Input domains.                                                          *)
(***************************************************************************)
KnownComponents == {"CustomLineChart", "MetricsCard", "GVFWLRChart", "ProductionMap"}
Components == KnownComponents \cup {"PieChart", "metricscard"}
LayoutIds == {"layout-1", "layout-2"}
Metrics == {None, Some("ofr"), Some("wfr"), Some("gfr"), Some("last_refresh"), Some("gvf")}
Titles == {None, Some("Oil Flow")}
Units == {None, Some("bbl/d")}
DsConfigs == {None} \cup {Some(c) : c \in [metric : Metrics, title : Titles, unit : Units]}
RefreshTimes == {None, Some(34509)}
Tokens == {None, Some("jwt")}
FieldVals == {None, Some(0), Some(7)}
DeviceSamples == [ofr : FieldVals, wfr : FieldVals, gfr : FieldVals]
HierarchySamples == [totalOfr : FieldVals, totalWfr : FieldVals, totalGfr : FieldVals]
SeqsUpTo(S, n) == UNION {[1..k -> S] : k \in 0..n}
OptSeqs(S, n) == {None} \cup {Some(s) : s \in SeqsUpTo(S, n)}
SamplesIn(o) == IF o = None THEN 0 ELSE Len(o[1])
Widths == 0..MaxWidth
ColWidths == {c * ColWidth : c \in 0..MaxCols}

(***************************************************************************)
(* JavaScript helpers.                                                     *)
(***************************************************************************)
\* x || 0 for an optional number: undefined and 0 are both falsy
OrZero(o) == IF o = None \/ o[1] = 0 THEN 0 ELSE o[1]
\* x || d for an optional string: undefined and "" are both falsy
OrString(o, d) == IF o = None \/ o[1] = "" THEN d ELSE o[1]
\* (n).toFixed(2) of an integer n
toFixed2(n) == ToString(n) \o ".00"
TwoDigit(n) == IF n < 10 THEN "0" \o ToString(n) ELSE ToString(n)
\* toLocaleTimeString('en-GB', 2-digit hour, minute, second, hour12: false)
toLocaleTimeString(t) ==
    TwoDigit(t \div 3600) \o ":" \o TwoDigit((t % 3600) \div 60) \o ":" \o TwoDigit(t % 60)

(***************************************************************************)
(* responsiveUtils.ts                                                      *)
(***************************************************************************)
\* the result `${n}px`, n in hundredths of a pixel
getResponsiveFontSize(w, base) ==
    LET b == IF base = None THEN 16 ELSE base[1]
    IN  IF w < 150 THEN [value |-> Max(1200, b * 60), unit |-> "px"]
        ELSE IF w < 200 THEN [value |-> Max(1400, b * 75), unit |-> "px"]
        ELSE IF w < 300 THEN [value |-> Max(1600, b * 90), unit |-> "px"]
        ELSE IF w < 400 THEN [value |-> b * 100, unit |-> "px"]
        ELSE [value |-> Min(b * 120, 4800), unit |-> "px"]

getResponsivePadding(w) == IF w < 150 THEN 8 ELSE IF w < 250 THEN 12 ELSE 16

getResponsiveGap(w) == IF w < 150 THEN 8 ELSE IF w < 250 THEN 12 ELSE 16

(***************************************************************************)
(* WidgetRenderer: render-time functions.                                  *)
(***************************************************************************)
getScaleFactorOffByOne(cw) ==
    IF cw <= 150 THEN 60
    ELSE IF cw < 200 THEN 75
    ELSE IF cw < 300 THEN 90
    ELSE IF cw < 400 THEN 100
    ELSE 120

getScaleFactor(cw) ==
    IF cw < 150 THEN 60
    ELSE IF cw < 200 THEN 75
    ELSE IF cw < 300 THEN 90
    ELSE IF cw < 400 THEN 100
    ELSE 120

\* const dsConfig = widget.dataSourceConfig || {}
dsConfigOf(w) ==
    IF w.dataSourceConfig = None
    THEN [metric |-> None, title |-> None, unit |-> None]
    ELSE w.dataSourceConfig[1]

LatestFirst(s) == s[1]

\* data[data.length - 1]
Latest(s) == s[Len(s)]

getMetricValueDeviceFirst(metric, hcd, cd) ==
    IF cd # None /\ Len(cd[1]) > 0
    THEN LET latest == Latest(cd[1])
         IN  CASE metric = Some("ofr") -> OrZero(latest.ofr)
               [] metric = Some("wfr") -> OrZero(latest.wfr)
               [] metric = Some("gfr") -> OrZero(latest.gfr)
               [] OTHER -> 0
    ELSE IF hcd # None /\ Len(hcd[1]) > 0
    THEN LET latest == Latest(hcd[1])
         IN  CASE metric = Some("ofr") -> OrZero(latest.totalOfr)
               [] metric = Some("wfr") -> OrZero(latest.totalWfr)
               [] metric = Some("gfr") -> OrZero(latest.totalGfr)
               [] OTHER -> 0
    ELSE 0

getMetricValue(metric, hcd, cd) ==
    IF hcd # None /\ Len(hcd[1]) > 0
    THEN LET latest == Latest(hcd[1])
         IN  CASE metric = Some("ofr") -> OrZero(latest.totalOfr)
               [] metric = Some("wfr") -> OrZero(latest.totalWfr)
               [] metric = Some("gfr") -> OrZero(latest.totalGfr)
               [] OTHER -> 0
    ELSE IF cd # None /\ Len(cd[1]) > 0
    THEN LET latest == Latest(cd[1])
         IN  CASE metric = Some("ofr") -> OrZero(latest.ofr)
               [] metric = Some("wfr") -> OrZero(latest.wfr)
               [] metric = Some("gfr") -> OrZero(latest.gfr)
               [] OTHER -> 0
    ELSE 0

\* padding, gap and the clamped icon and text sizes of a card (sizes in hundredths)
cardSizes(cw) ==
    [padding   |-> IF cw < 150 THEN 8 ELSE IF cw < 250 THEN 12 ELSE 16,
     gap       |-> IF cw < 150 THEN 8 ELSE IF cw < 250 THEN 10 ELSE 12,
     iconSize  |-> Max(3200, Min(4000, cw * 25)),
     titleSize |-> Max(1000, Min(1400, cw * 8)),
     valueSize |-> Max(1800, Min(3600, cw * 30)),
     unitSize  |-> Max(1000, Min(1600, cw * 8))]

renderBranchNoMap(component) ==
    CASE component = "CustomLineChart" -> "CustomLineChart"
      [] component = "MetricsCard" -> "MetricsCard"
      [] component = "GVFWLRChart" -> "GVFWLRChart"
      [] OTHER -> "Unknown"

\* switch (widget.component)
renderBranch(component) ==
    CASE component = "CustomLineChart" -> "CustomLineChart"
      [] component = "MetricsCard" -> "MetricsCard"
      [] component = "GVFWLRChart" -> "GVFWLRChart"
      [] component = "ProductionMap" -> "ProductionMap"
      [] OTHER -> "Unknown"

showDeleteAnyUser(adm, od) == od

\* {isAdmin && onDelete && (<button onClick={handleDelete} .../>)}
showDelete(adm, od) == adm /\ od

formattedTimeBlank(lr) == IF lr = None THEN "" ELSE toLocaleTimeString(lr[1])

formattedTime(lr) == IF lr = None THEN "--:--:--" ELSE toLocaleTimeString(lr[1])

blankView ==
    [kind |-> "", deleteButton |-> FALSE, hasRef |-> FALSE, title |-> "", value |-> "",
     unit |-> "", label |-> "", sizes |-> None]

\* the element tree the function component returns
Render(w, cd, hcd, lr, od, adm, cw) ==
    LET dsConfig == dsConfigOf(w)
        branch == renderBranch(w.component)
    IN  CASE branch = "CustomLineChart" ->
               [blankView EXCEPT !.kind = "CustomLineChart",
                                 !.deleteButton = showDelete(adm, od)]
          [] branch = "MetricsCard" /\ dsConfig.metric = Some("last_refresh") ->
               [blankView EXCEPT !.kind = "MetricsCard", !.hasRef = TRUE,
                                 !.title = "Last Refresh",
                                 !.value = formattedTime(lr),
                                 !.sizes = Some(cardSizes(cw))]
          [] branch = "MetricsCard" /\ dsConfig.metric # Some("last_refresh") ->
               [blankView EXCEPT !.kind = "MetricsCard", !.hasRef = TRUE,
                                 !.title = OrString(dsConfig.title, "Metric"),
                                 !.value = toFixed2(getMetricValue(dsConfig.metric, hcd, cd)),
                                 !.unit = OrString(dsConfig.unit, "l/min"),
                                 !.sizes = Some(cardSizes(cw))]
          [] branch = "GVFWLRChart" -> [blankView EXCEPT !.kind = "GVFWLRChart"]
          [] branch = "ProductionMap" -> [blankView EXCEPT !.kind = "ProductionMap"]
          [] OTHER ->
               [blankView EXCEPT !.kind = "Unknown", !.label = w.component]

(***************************************************************************)
(* ScaleSpec: the component state containerWidth is set to any width and   *)
(* the component renders again, computing scaleFactor.                     *)
(***************************************************************************)
IdleProps ==
    /\ widget = [component |-> "MetricsCard", layoutId |-> "layout-1", dataSourceConfig |-> None]
    /\ chartData = None
    /\ hierarchyChartData = None
    /\ lastRefresh = None
    /\ onDelete = FALSE
    /\ isAdmin = FALSE
    /\ token = None

IdleDom == offsetWidth = 0 /\ observing = FALSE /\ pending = FALSE /\ stale = FALSE

IdleLogs == clickLog = <<>> /\ events = <<>>

IdleFont == width = 0 /\ baseSize = None /\ fontSize = None

ScaleInit ==
    /\ IdleProps /\ IdleDom /\ IdleLogs /\ IdleFont
    /\ mounted = TRUE
    /\ containerWidth = 0
    /\ scaleFactor = getScaleFactor(0)
    /\ view = None

\* setContainerWidth(w) followed by the render it schedules
SetContainerWidth(w) ==
    /\ containerWidth' = w
    /\ scaleFactor' = getScaleFactor(w)
    /\ UNCHANGED <<propVars, view, mounted, domVars, logVars, fontVars>>

ScaleNext == \E w \in Widths : SetContainerWidth(w)

ScaleSpec == ScaleInit /\ [][ScaleNext]_vars

ScaleTable(w) ==
    CASE w < 150 -> 60
      [] 150 <= w /\ w < 200 -> 75
      [] 200 <= w /\ w < 300 -> 90
      [] 300 <= w /\ w < 400 -> 100
      [] w >= 400 -> 120

\* C1: at every render the scale factor is the documented table's value for
\* containerWidth (0.6, 0.75, 0.9, 1, 1.2 at breakpoints 150, 200, 300, 400), and
\* from one render to the next a width that does not shrink never lowers the factor.
C1_ScaleTableMonotone ==
    [][/\ scaleFactor = ScaleTable(containerWidth)
       /\ scaleFactor' = ScaleTable(containerWidth')
       /\ (containerWidth <= containerWidth' => scaleFactor <= scaleFactor')]_vars

C1_Witness == containerWidth = 400 /\ scaleFactor = 120

(***************************************************************************)
(* FontSpec: getResponsiveFontSize is called with one base size at any     *)
(* sequence of widths.                                                     *)
(***************************************************************************)
FontInit ==
    /\ IdleProps /\ IdleDom /\ IdleLogs
    /\ mounted = FALSE
    /\ containerWidth = 0
    /\ scaleFactor = getScaleFactor(0)
    /\ view = None
    /\ width = 0
    /\ baseSize \in {None} \cup {Some(b) : b \in 1..MaxBase}
    /\ fontSize = None

CallFontSize(w) ==
    /\ width' = w
    /\ fontSize' = Some(getResponsiveFontSize(w, baseSize))
    /\ UNCHANGED <<propVars, containerWidth, scaleFactor, view, mounted, domVars, logVars, baseSize>>

FontNext == \E w \in Widths : CallFontSize(w)

FontSpec == FontInit /\ [][FontNext]_vars

\* C7: for every baseSize > 0, a call at a width w2 >= w1 never returns a smaller
\* pixel size than the call at w1 did.
C7_FontSizeMonotone ==
    [][(fontSize # None /\ fontSize' # None /\ width <= width')
         => fontSize[1].value <= fontSize'[1].value]_vars

(***************************************************************************)
(* Spec: the mounted component under prop changes of its parent and clicks *)
(* on the delete button.  The container is not resized here (its width is  *)
(* 0, as is containerWidth); the chart data stays absent.                  *)
(***************************************************************************)
handleDeleteNoConfirm(answer) ==
    IF ~onDelete \/ token = None THEN <<>>
    ELSE <<[type |-> "confirm", accepted |-> answer, arg |-> ""],
           [type |-> "onDelete", accepted |-> FALSE, arg |-> widget.layoutId]>>

handleDeleteNoToken(answer) ==
    IF ~onDelete THEN <<>>
    ELSE IF ~answer THEN <<[type |-> "confirm", accepted |-> FALSE, arg |-> ""]>>
    ELSE <<[type |-> "confirm", accepted |-> TRUE, arg |-> ""],
           [type |-> "onDelete", accepted |-> FALSE, arg |-> widget.layoutId]>>

\* the effects of one handleDelete call, in order; answer is what confirm() returns
handleDelete(answer) ==
    IF ~onDelete \/ token = None THEN <<>>
    ELSE IF ~answer THEN <<[type |-> "confirm", accepted |-> FALSE, arg |-> ""]>>
    ELSE <<[type |-> "confirm", accepted |-> TRUE, arg |-> ""],
           [type |-> "onDelete", accepted |-> FALSE, arg |-> widget.layoutId]>>

Init ==
    /\ widget \in [component : Components, layoutId : LayoutIds, dataSourceConfig : DsConfigs]
    /\ chartData = None
    /\ hierarchyChartData = None
    /\ lastRefresh = None
    /\ onDelete \in BOOLEAN
    /\ isAdmin \in BOOLEAN
    /\ token \in Tokens
    /\ mounted = TRUE
    /\ containerWidth = 0
    /\ scaleFactor = getScaleFactor(0)
    /\ view = Some(Render(widget, chartData, hierarchyChartData, lastRefresh, onDelete, isAdmin, 0))
    /\ offsetWidth = 0
    /\ observing = view[1].hasRef
    /\ pending = FALSE
    /\ stale = FALSE
    /\ IdleLogs /\ IdleFont

\* the parent renders the component again with another widget.component
SetComponent(c) ==
    /\ mounted
    /\ c # widget.component
    /\ widget' = [widget EXCEPT !.component = c]
    /\ view' = Some(Render(widget', chartData, hierarchyChartData, lastRefresh, onDelete, isAdmin, containerWidth))
    /\ UNCHANGED <<chartData, hierarchyChartData, lastRefresh, onDelete, isAdmin, token,
                   containerWidth, scaleFactor, mounted, domVars, logVars, fontVars>>

SetLayoutId(l) ==
    /\ mounted
    /\ l # widget.layoutId
    /\ widget' = [widget EXCEPT !.layoutId = l]
    /\ view' = Some(Render(widget', chartData, hierarchyChartData, lastRefresh, onDelete, isAdmin, containerWidth))
    /\ UNCHANGED <<chartData, hierarchyChartData, lastRefresh, onDelete, isAdmin, token,
                   containerWidth, scaleFactor, mounted, domVars, logVars, fontVars>>

SetIsAdmin(b) ==
    /\ mounted
    /\ b # isAdmin
    /\ isAdmin' = b
    /\ view' = Some(Render(widget, chartData, hierarchyChartData, lastRefresh, onDelete, b, containerWidth))
    /\ UNCHANGED <<widget, chartData, hierarchyChartData, lastRefresh, onDelete, token,
                   containerWidth, scaleFactor, mounted, domVars, logVars, fontVars>>

SetOnDelete(b) ==
    /\ mounted
    /\ b # onDelete
    /\ onDelete' = b
    /\ view' = Some(Render(widget, chartData, hierarchyChartData, lastRefresh, b, isAdmin, containerWidth))
    /\ UNCHANGED <<widget, chartData, hierarchyChartData, lastRefresh, isAdmin, token,
                   containerWidth, scaleFactor, mounted, domVars, logVars, fontVars>>

\* useAuth() yields another token (login, logout); the view does not read it
SetToken(t) ==
    /\ mounted
    /\ t # token
    /\ token' = t
    /\ UNCHANGED <<widget, chartData, hierarchyChartData, lastRefresh, onDelete, isAdmin,
                   containerWidth, scaleFactor, view, mounted, domVars, logVars, fontVars>>

\* a click on the rendered delete button runs handleDelete; confirm() blocks the
\* event loop, so the handler runs to its end before anything else happens
ClickDelete(answer) ==
    /\ mounted
    /\ view[1].deleteButton
    /\ Len(clickLog) < MaxClicks
    /\ LET n == Len(clickLog) + 1
           effects == handleDelete(answer)
       IN  /\ clickLog' = Append(clickLog,
                  [component |-> widget.component, layoutId |-> widget.layoutId,
                   isAdmin |-> isAdmin, onDelete |-> onDelete, token |-> token])
           /\ events' = events \o
                  [i \in 1..Len(effects) |->
                      [click |-> n, type |-> effects[i].type,
                       accepted |-> effects[i].accepted, arg |-> effects[i].arg]]
    /\ UNCHANGED <<propVars, containerWidth, scaleFactor, view, mounted, domVars, fontVars>>

Next ==
    \/ \E c \in Components : SetComponent(c)
    \/ \E l \in LayoutIds : SetLayoutId(l)
    \/ \E b \in BOOLEAN : SetIsAdmin(b)
    \/ \E b \in BOOLEAN : SetOnDelete(b)
    \/ \E t \in Tokens : SetToken(t)
    \/ \E answer \in BOOLEAN : ClickDelete(answer)

Spec == Init /\ [][Next]_vars

Calls == {i \in DOMAIN events : events[i].type = "onDelete"}
Dialogs == {i \in DOMAIN events : events[i].type = "confirm"}

\* C2: a component string outside the four recognized ones renders the "Unknown
\* widget type" fallback, which shows widget.component, whatever the other props
\* and the data-source configuration are; a recognized string never renders it.
C2_UnknownFallback ==
    /\ widget.component \notin {"CustomLineChart", "MetricsCard", "GVFWLRChart", "ProductionMap"}
          => (view[1].kind = "Unknown" /\ view[1].label = widget.component)
    /\ widget.component \in {"CustomLineChart", "MetricsCard", "GVFWLRChart", "ProductionMap"}
          => view[1].kind # "Unknown"

C2_Witness ==
    /\ view[1].kind = "Unknown"
    /\ view[1].label = "metricscard"
    /\ widget.dataSourceConfig # None
    /\ isAdmin /\ onDelete
    /\ clickLog # <<>>

\* C3: every onDelete call comes after a confirm() dialog of the same click that
\* the user accepted, there is at most one call per click, its argument is the
\* widget.layoutId the click saw, and a declined dialog has no call.
C3_ConfirmationGated ==
    /\ \A i \in Calls :
          /\ \E j \in Dialogs :
                j < i /\ events[j].click = events[i].click /\ events[j].accepted
          /\ \A k \in Calls : events[k].click = events[i].click => k = i
          /\ events[i].arg = clickLog[events[i].click].layoutId
    /\ \A j \in Dialogs :
          ~events[j].accepted => \A i \in Calls : events[i].click # events[j].click
    /\ \A j, k \in Dialogs : events[j].click = events[k].click => j = k

C3_Witness ==
    /\ \E i \in Calls : events[i].arg = "layout-2"
    /\ \E j \in Dialogs : ~events[j].accepted
    /\ widget.layoutId = "layout-1"

\* C9: onDelete is never invoked by a click made while isAdmin is false: the
\* delete button is rendered exactly when isAdmin is true, an onDelete callback
\* was supplied and the component is 'CustomLineChart', and only a rendered
\* button can be clicked.
C9_AdminOnly ==
    /\ view[1].deleteButton <=> (isAdmin /\ onDelete /\ widget.component = "CustomLineChart")
    /\ \A i \in DOMAIN clickLog :
          clickLog[i].isAdmin /\ clickLog[i].onDelete /\ clickLog[i].component = "CustomLineChart"
    /\ \A i \in Calls : clickLog[events[i].click].isAdmin

C9_Witness == Calls # {} /\ ~isAdmin /\ ~view[1].deleteButton

\* C10: a click made while the token is absent (or no onDelete was supplied)
\* shows no dialog, calls nothing and leaves the component state and its view
\* as they were.
C10_NoTokenNoOp ==
    [][(Len(clickLog') = Len(clickLog) + 1 /\ (token = None \/ ~onDelete))
         => /\ events' = events
            /\ containerWidth' = containerWidth
            /\ view' = view]_vars

\* the button is displayed to an admin without a token, and was clicked
C10_Witness ==
    /\ clickLog # <<>>
    /\ clickLog[Len(clickLog)].token = None
    /\ clickLog[Len(clickLog)].isAdmin
    /\ token = None
    /\ view[1].deleteButton
    /\ events = <<>>

(***************************************************************************)
(* CardSpec: a MetricsCard widget is handed any data-source configuration, *)
(* any chart data and any lastRefresh, and renders.                        *)
(***************************************************************************)
CardInit ==
    /\ widget \in [component : {"MetricsCard"}, layoutId : {"layout-1"},
                   dataSourceConfig : DsConfigs]
    /\ hierarchyChartData \in OptSeqs(HierarchySamples, MaxSamples)
    /\ chartData \in OptSeqs(DeviceSamples, MaxSamples - SamplesIn(hierarchyChartData))
    /\ lastRefresh \in RefreshTimes
    /\ onDelete = FALSE
    /\ isAdmin = FALSE
    /\ token = None
    /\ mounted = FALSE
    /\ containerWidth = 0
    /\ scaleFactor = getScaleFactor(0)
    /\ view = None
    /\ IdleDom /\ IdleLogs /\ IdleFont

\* the first call of the function component, with containerWidth still 0
FirstRender ==
    /\ view = None
    /\ mounted' = TRUE
    /\ view' = Some(Render(widget, chartData, hierarchyChartData, lastRefresh, onDelete,
                           isAdmin, containerWidth))
    /\ UNCHANGED <<propVars, containerWidth, scaleFactor, domVars, logVars, fontVars>>

CardNext == FirstRender

CardSpec == CardInit /\ [][CardNext]_vars

NonEmpty(o) == o # None /\ o[1] # <<>>
KeepLast(o) == IF NonEmpty(o) THEN Some(<<o[1][Len(o[1])]>>) ELSE o
FlowMetrics == {Some("ofr"), Some("wfr"), Some("gfr")}
MetricOf == IF widget.dataSourceConfig = None THEN None ELSE widget.dataSourceConfig[1].metric
ShowsMetric == view # None /\ MetricOf # Some("last_refresh")
HierarchyField(sample, m) ==
    CASE m = Some("ofr") -> sample.totalOfr
      [] m = Some("wfr") -> sample.totalWfr
      [] m = Some("gfr") -> sample.totalGfr
DeviceField(sample, m) ==
    CASE m = Some("ofr") -> sample.ofr
      [] m = Some("wfr") -> sample.wfr
      [] m = Some("gfr") -> sample.gfr
Shown(o) == IF o = None THEN "0.00" ELSE IF o[1] = 0 THEN "0.00" ELSE ToString(o[1]) \o ".00"
LastOf(o) == o[1][Len(o[1])]

\* C4: the value a card shows for 'ofr', 'wfr' or 'gfr' is the value it would
\* show were every sample but the last one of each sequence dropped: it is a
\* function of the last elements alone, so no earlier element can change it.
C4_LastSampleWins ==
    (ShowsMetric /\ MetricOf \in FlowMetrics) =>
        view[1].value =
            toFixed2(getMetricValue(MetricOf, KeepLast(hierarchyChartData), KeepLast(chartData)))

C4_Witness ==
    /\ ShowsMetric /\ MetricOf = Some("wfr")
    /\ chartData # None /\ Len(chartData[1]) = 2
    /\ chartData[1][1].wfr = Some(7) /\ chartData[1][2].wfr = Some(0)
    /\ view[1].value = "0.00"

\* C5: a card shows 0.00 when both sequences are absent or empty, when the
\* latest sample lacks the requested field or when the metric is none of 'ofr',
\* 'wfr', 'gfr'; the title 'Metric' and the unit 'l/min' when they are absent;
\* '--:--:--' on a 'last_refresh' card without lastRefresh; and a widget without
\* any dataSourceConfig renders as a card with all of these defaults.
C5_Defaults ==
    view # None =>
        /\ view[1].kind = "MetricsCard"
        /\ ShowsMetric =>
              /\ (~NonEmpty(hierarchyChartData) /\ ~NonEmpty(chartData)) => view[1].value = "0.00"
              /\ (MetricOf \in FlowMetrics /\ NonEmpty(hierarchyChartData)
                     /\ HierarchyField(LastOf(hierarchyChartData), MetricOf) = None)
                    => view[1].value = "0.00"
              /\ (MetricOf \in FlowMetrics /\ ~NonEmpty(hierarchyChartData) /\ NonEmpty(chartData)
                     /\ DeviceField(LastOf(chartData), MetricOf) = None)
                    => view[1].value = "0.00"
              /\ MetricOf \notin FlowMetrics => view[1].value = "0.00"
              /\ (widget.dataSourceConfig = None \/ widget.dataSourceConfig[1].title = None)
                    => view[1].title = "Metric"
              /\ (widget.dataSourceConfig = None \/ widget.dataSourceConfig[1].unit = None)
                    => view[1].unit = "l/min"
        /\ (MetricOf = Some("last_refresh") /\ lastRefresh = None) => view[1].value = "--:--:--"

C5_Witness ==
    /\ view # None
    /\ widget.dataSourceConfig = None
    /\ NonEmpty(hierarchyChartData) /\ LastOf(hierarchyChartData).totalOfr = Some(7)
    /\ view[1].title = "Metric" /\ view[1].value = "0.00" /\ view[1].unit = "l/min"

\* C8: with a non-empty hierarchy sequence the value shown is the last hierarchy
\* sample's totalOfr / totalWfr / totalGfr, and 0 when that field is missing or
\* 0, whatever the device data holds; the last device sample is read only when
\* the hierarchy sequence is absent or empty.
C8_HierarchyPrecedence ==
    (ShowsMetric /\ MetricOf \in FlowMetrics) =>
        /\ NonEmpty(hierarchyChartData) =>
              view[1].value = Shown(HierarchyField(LastOf(hierarchyChartData), MetricOf))
        /\ (~NonEmpty(hierarchyChartData) /\ NonEmpty(chartData)) =>
              view[1].value = Shown(DeviceField(LastOf(chartData), MetricOf))

C8_Witness ==
    /\ ShowsMetric /\ MetricOf = Some("gfr")
    /\ NonEmpty(hierarchyChartData) /\ LastOf(hierarchyChartData).totalGfr = None
    /\ NonEmpty(chartData) /\ LastOf(chartData).gfr = Some(7)
    /\ view[1].value = "0.00"

(***************************************************************************)
(* FairSpec: the component is mounted, its parent changes widget.component,*)
(* the container is resized, and the ResizeObserver delivers its queued    *)
(* notification (weak fairness: the browser runs a queued callback).       *)
(* Every branch returns a <div> as its root, so React keeps one root DOM   *)
(* element for the life of the component and only attaches or detaches     *)
(* containerRef as the branch changes.                                     *)
(***************************************************************************)
RefreshCard == [metric |-> Some("last_refresh"), title |-> None, unit |-> None]

FairInit ==
    /\ widget \in [component : Components, layoutId : {"layout-1"},
                   dataSourceConfig : {None, Some(RefreshCard)}]
    /\ chartData = None
    /\ hierarchyChartData = None
    /\ lastRefresh = None
    /\ onDelete = FALSE
    /\ isAdmin = FALSE
    /\ token = None
    /\ mounted = FALSE
    /\ containerWidth = 0
    /\ scaleFactor = getScaleFactor(0)
    /\ view = None
    /\ offsetWidth \in ColWidths
    /\ observing = FALSE
    /\ pending = FALSE
    /\ stale = FALSE
    /\ IdleLogs /\ IdleFont

\* the first render, the commit, and the mount effect (its dependency list is
\* empty, so it runs this once): with the ref attached it reads offsetWidth and
\* starts observing the element, which queues a first notification
Mount ==
    /\ ~mounted /\ view = None
    /\ mounted' = TRUE
    /\ LET first == Render(widget, chartData, hierarchyChartData, lastRefresh, onDelete, isAdmin, 0)
       IN  /\ containerWidth' = IF first.hasRef THEN offsetWidth ELSE 0
           /\ observing' = first.hasRef
           /\ pending' = first.hasRef
    /\ scaleFactor' = getScaleFactor(containerWidth')
    /\ view' = Some(Render(widget, chartData, hierarchyChartData, lastRefresh, onDelete,
                           isAdmin, containerWidth'))
    /\ UNCHANGED <<propVars, offsetWidth, stale, logVars, fontVars>>

\* the layout gives the root element another width
Resize(w) ==
    /\ mounted
    /\ w # offsetWidth
    /\ offsetWidth' = w
    /\ pending' = (pending \/ observing)
    /\ stale' = (stale \/ view[1].hasRef)
    /\ UNCHANGED <<propVars, containerWidth, scaleFactor, view, mounted, observing,
                   logVars, fontVars>>

\* the ResizeObserver callback, and the render setContainerWidth schedules
DeliverResize ==
    /\ mounted /\ pending
    /\ pending' = FALSE
    /\ IF view[1].hasRef
       THEN /\ containerWidth' = offsetWidth
            /\ scaleFactor' = getScaleFactor(offsetWidth)
            /\ view' = Some(Render(widget, chartData, hierarchyChartData, lastRefresh,
                                   onDelete, isAdmin, offsetWidth))
            /\ stale' = FALSE
       ELSE UNCHANGED <<containerWidth, scaleFactor, view, stale>>
    /\ UNCHANGED <<propVars, mounted, offsetWidth, observing, logVars, fontVars>>

\* the effect's cleanup: resizeObserver.disconnect()
Unmount ==
    /\ mounted
    /\ mounted' = FALSE
    /\ observing' = FALSE
    /\ pending' = FALSE
    /\ UNCHANGED <<propVars, containerWidth, scaleFactor, view, offsetWidth, stale,
                   logVars, fontVars>>

FairNext ==
    \/ Mount
    \/ \E c \in Components : SetComponent(c)
    \/ \E w \in ColWidths : Resize(w)
    \/ DeliverResize
    \/ Unmount

FairSpec == FairInit /\ [][FairNext]_vars /\ WF_vars(DeliverResize)

\* C6: whenever the container's width changed while a MetricsCard is rendered,
\* containerWidth eventually equals the current offsetWidth (unless the component
\* is unmounted or stops rendering a card first), whatever prop changes and
\* resizes came before.
C6_WidthObserved ==
    (mounted /\ view # None /\ view[1].hasRef /\ stale)
        ~> (~mounted \/ ~view[1].hasRef \/ containerWidth = offsetWidth)

====
